---- MODULE Spec2Model ----
(***************************************************************************)
(* A model of the io_future_threadpool crate: the completion bridge        *)
(* (iocp_threadpool.rs), the socket stream (stream.rs) and the socket      *)
(* listener (listener.rs).                                                 *)
(*                                                                         *)
(* Spec      the bridge: start_async_io on the submitting thread, the      *)
(*           completion callback on a pool thread, IocpFuture::poll and    *)
(*           drop on the consumer's executor, one process each per         *)
(*           operation.                                                    *)
(* FairSpec  Spec with the scheduling the OS pool and the executor give.   *)
(* SpecWrite one call of AsyncTcpStream::write_all on a buffer of any       *)
(*           length up to MaxLen.                                          *)
(* SpecSock  bind, connect, AsyncTcpStream::new, calls of accept and the   *)
(*           operations started on wrapped streams, every OS call able to  *)
(*           fail.                                                         *)
(* SpecStream  one constructed AsyncTcpStream: concurrent calls of         *)
(*           poll_read and poll_write, the drop of their futures and the   *)
(*           drop of the stream; or one bound AsyncTcpListener and its     *)
(*           drop.                                                         *)
(* SpecPool  threadpool.rs: calls of spawn and their work callbacks, with  *)
(*           one bridge operation whose future a spawned future or an      *)
(*           executor polls, panics inside the callbacks included.         *)
(* FairPool  SpecPool with the scheduling the OS pool gives.               *)
(* SpecCache the lookups of the accept extension function that up to       *)
(*           MaxLookups binds make in the process-wide cache.              *)
(***************************************************************************)
EXTENDS Integers, Sequences, FiniteSets, TLC

\* Bounds of the model.
MaxBytes == 1
MaxSpurious == 1
MaxLen == 4
MaxIo == 1
MaxLookups == 4

\* The "pending" sentinel of the OS (winerror.h), imported by the crate.
ERROR_IO_PENDING == 997

\* Sample OS error codes other than 0 and the pending sentinel.
OsErrors == {5}

\* The operations started on the one registration.  Operations share nothing
\* but the registration's count of armed expectations, so two of them show
\* every interaction.
Ops == {1, 2}

\* Option<T>
None == <<>>

Some(x) == <<x>>

\* u32 reinterpreted as i32 (x - 2^32 above i32::MAX)
AsI32(x) == IF x > 2147483647 THEN (x - 2147483647) - 2147483647 - 2 ELSE x

IocpResult(e, n) == [io_result |-> e, number_of_bytes_transferred |-> n]

\* io::Result<usize>
Ok(n) == [tag |-> "Ok", val |-> n, kind |-> "", code |-> 0]

OsError(c) == [tag |-> "Err", val |-> 0, kind |-> "Os", code |-> c]

OtherError(msg) == [tag |-> "Err", val |-> 0, kind |-> msg, code |-> 0]

\* A translation that reports the count whatever the result code.
number_of_bytes_transferred_unchecked(r) ==
    Ok(r.number_of_bytes_transferred)

get_number_of_bytes_transferred(r) ==
    IF r.io_result = 0
    THEN Ok(r.number_of_bytes_transferred)
    ELSE OsError(AsI32(r.io_result))

VARIABLES ops, armed, wa, handles, listener, cache, conn, acc, sio, work,
          proc

vars ==
    <<ops, armed, wa, handles, listener, cache, conn, acc, sio, work, proc>>

bridgeVars == <<ops, armed>>

writeVars == <<wa>>

sockVars == <<handles, listener, cache, conn, acc>>

streamVars == <<sio>>

poolVars == <<work, proc>>

nonBridgeVars ==
    <<wa, handles, listener, cache, conn, acc, sio, work, proc>>

(***************************************************************************)
(* The bridge.  ops[o] is everything that belongs to operation o:          *)
(*   pc        where the submitting thread is inside start_async_io        *)
(*   rc        the IocpResult start_async_io computed from op's return     *)
(*   alloc     the Box<OverlappedAndIocpStateReference>: none, live, freed *)
(*   arc       strong count of the Arc<Mutex<IocpFutureState>>             *)
(*   lock      holder of the Mutex: free, sync, cb, poll                   *)
(*   result    IocpFutureState.result                                      *)
(*   waker     IocpFutureState.waker (the number of the poll that stored   *)
(*             it)                                                         *)
(*   cbPc      where the pool thread is inside io_completion_function      *)
(*   cbArg     the (io_result, number_of_bytes_transferred) the OS passed  *)
(*   fut       the IocpFuture: none, held, waiting, ready, dropped         *)
(*   polling   a poll holds the lock                                       *)
(*   got       what the last ready poll returned                           *)
(*   woken     the executor has been told to poll again                    *)
(*   wokenBy   the waker that was invoked                                  *)
(*   polls, spurious, lastPending   poll counters                          *)
(*   syncWrites, cbWrites, syncFrees, cbFrees, retracts   instrumentation  *)
(*             of the two completion paths                                 *)
(*   uaf       the callback touched an allocation that was already freed   *)
(*   droppedAt where the callback was when the future was dropped          *)
(*   out       what op returned and the last error after it                *)
(*   seen      what the last poll found in the result slot: empty, full    *)
(*   firstGot, firstReadyAt   what the first ready poll returned, and its  *)
(*             number                                                      *)
(*   wakeHeld  the holder of the lock when the waker was invoked           *)
(*   poison    the Mutex is poisoned: a thread panicked while holding it   *)
(*   cbFault   what panicked inside the completion callback: lock, waker   *)
(*   arms      StartThreadpoolIo calls made for the operation              *)
(***************************************************************************)
OpInit ==
    [pc |-> "idle", rc |-> IocpResult(0, 0), alloc |-> "none", arc |-> 0,
     lock |-> "free", result |-> None, waker |-> None,
     cbPc |-> "none", cbArg |-> IocpResult(0, 0),
     fut |-> "none", polling |-> FALSE, got |-> None,
     woken |-> FALSE, wokenBy |-> 0, polls |-> 0, spurious |-> 0,
     lastPending |-> 0,
     syncWrites |-> 0, cbWrites |-> 0, syncFrees |-> 0, cbFrees |-> 0,
     retracts |-> 0, uaf |-> FALSE, droppedAt |-> "",
     out |-> [ret |-> None, err |-> 0], seen |-> "", firstGot |-> None,
     firstReadyAt |-> 0, wakeHeld |-> "", poison |-> FALSE, cbFault |-> "",
     arms |-> 0]

BridgeInit ==
    /\ ops = [o \in Ops |-> OpInit]
    /\ armed = 0

\* What op and the GetLastError that follows it can report.
OpOutcomes ==
    {[ret |-> Some(n), err |-> 0] : n \in 0..MaxBytes}
    \cup {[ret |-> None, err |-> e] : e \in {0, ERROR_IO_PENDING} \cup OsErrors}

\* What the OS passes to the completion callback.
CompletionOutcomes ==
    {IocpResult(e, n) : e \in {0} \cup OsErrors, n \in 0..MaxBytes}

\* With FILE_SKIP_COMPLETION_PORT_ON_SUCCESS set on the handle the OS queues
\* a completion packet for exactly the operations that went pending.
OsQueuesCompletion(out) == out.ret = None /\ out.err = ERROR_IO_PENDING

\* A start_async_io that records success without the count op reported.
StartRcLosesCount(out) ==
    IF out.ret # None
    THEN IocpResult(0, 0)
    ELSE IocpResult(out.err, 0)

\* start_async_io: let rc = match maybe_sync_completion { ... }
StartRc(out) ==
    IF out.ret # None
    THEN IocpResult(0, out.ret[1])
    ELSE IocpResult(out.err, 0)

\* A start_async_io that takes every return of op for a finished operation.
IsPendingNever(r) == FALSE

\* start_async_io: if rc.io_result as i32 == ERROR_IO_PENDING
IsPending(r) == AsI32(r.io_result) = ERROR_IO_PENDING

\* The process has not been terminated.
Running == proc = "running"

\* Dropping a Box: the allocation is released (again, if it was released).
FreeBox(a) == "freed"

\* start_async_io: Arc::new, Box::new with a clone of the Arc, Box::into_raw
StartAlloc(o) ==
    /\ Running
    /\ ops[o].pc = "idle"
    /\ ops' = [ops EXCEPT ![o].pc = "allocated", ![o].alloc = "live",
                          ![o].arc = 2]
    /\ UNCHANGED <<armed, nonBridgeVars>>

\* start_async_io: StartThreadpoolIo(tp_io.tp_io)
StartArm(o) ==
    /\ Running
    /\ ops[o].pc = "allocated"
    /\ ops' = [ops EXCEPT ![o].pc = "armed", ![o].arms = @ + 1]
    /\ armed' = armed + 1
    /\ UNCHANGED nonBridgeVars

\* start_async_io: op(overlapped), GetLastError, rc
StartCallOp(o) ==
    /\ Running
    /\ ops[o].pc = "armed"
    /\ \E out \in OpOutcomes :
          ops' = [ops EXCEPT ![o].pc = "called",
                             ![o].out = out,
                             ![o].rc = StartRc(out),
                             ![o].cbPc = IF OsQueuesCompletion(out)
                                         THEN "queued" ELSE @]
    /\ UNCHANGED <<armed, nonBridgeVars>>

\* A start_async_io that retracts the expectation and releases the
\* allocation on the pending branch too.
StartPendingReturnCleansUp(o) ==
    /\ Running
    /\ ops[o].pc = "called"
    /\ IsPending(ops[o].rc)
    /\ ops' = [ops EXCEPT ![o].pc = "returned", ![o].fut = "held",
                          ![o].retracts = @ + 1,
                          ![o].alloc = FreeBox(@),
                          ![o].syncFrees = @ + 1]
    /\ armed' = armed - 1
    /\ UNCHANGED nonBridgeVars

\* start_async_io: the pending branch does nothing and the future is returned
StartPendingReturn(o) ==
    /\ Running
    /\ ops[o].pc = "called"
    /\ IsPending(ops[o].rc)
    /\ ops' = [ops EXCEPT ![o].pc = "returned", ![o].fut = "held"]
    /\ UNCHANGED <<armed, nonBridgeVars>>

\* A start_async_io that does not retract the expectation it armed.
StartCancelForgets(o) ==
    /\ Running
    /\ ops[o].pc = "called"
    /\ ~IsPending(ops[o].rc)
    /\ ops' = [ops EXCEPT ![o].pc = "cancelled"]
    /\ UNCHANGED <<armed, nonBridgeVars>>

\* start_async_io: CancelThreadpoolIo(tp_io.tp_io)
StartCancel(o) ==
    /\ Running
    /\ ops[o].pc = "called"
    /\ ~IsPending(ops[o].rc)
    /\ ops' = [ops EXCEPT ![o].pc = "cancelled", ![o].retracts = @ + 1]
    /\ armed' = armed - 1
    /\ UNCHANGED nonBridgeVars

\* A start_async_io that forgets drop(Box::from_raw(overlapped)).
StartFreeLeak(o) ==
    /\ Running
    /\ ops[o].pc = "cancelled"
    /\ ops' = [ops EXCEPT ![o].pc = "released"]
    /\ UNCHANGED <<armed, nonBridgeVars>>

\* start_async_io: drop(Box::from_raw(overlapped))
StartFree(o) ==
    /\ Running
    /\ ops[o].pc = "cancelled"
    /\ ops' = [ops EXCEPT ![o].pc = "released",
                          ![o].alloc = FreeBox(@),
                          ![o].syncFrees = @ + 1,
                          ![o].arc = @ - 1]
    /\ UNCHANGED <<armed, nonBridgeVars>>

\* start_async_io: state.lock(), result = Some(rc), unlock, return the future
StartStore(o) ==
    /\ Running
    /\ ops[o].pc = "released"
    /\ ops[o].lock = "free"
    /\ ops' = [ops EXCEPT ![o].pc = "returned",
                          ![o].result = Some(ops[o].rc),
                          ![o].syncWrites = @ + 1,
                          ![o].fut = "held"]
    /\ UNCHANGED <<armed, nonBridgeVars>>

\* io_completion_function: Box::from_raw(overlapped), then
\* process_iocp_completion: self.state.lock()
CbEnter(o) ==
    /\ Running
    /\ ops[o].cbPc = "queued"
    /\ ops[o].lock = "free"
    /\ ~ops[o].poison
    /\ \E r \in CompletionOutcomes :
          ops' = [ops EXCEPT ![o].cbPc = "locked", ![o].lock = "cb",
                             ![o].cbArg = r,
                             ![o].uaf = @ \/ ops[o].alloc # "live"]
    /\ armed' = armed - 1
    /\ UNCHANGED nonBridgeVars

\* A callback that reaches the state of the other operation.
CbStoreCrossed(o) ==
    /\ Running
    /\ ops[o].cbPc = "locked"
    /\ ops' = [ops EXCEPT ![o].cbPc = "stored",
                          ![o].cbWrites = @ + 1,
                          ![CHOOSE q \in Ops : q # o].result = Some(ops[o].cbArg)]
    /\ UNCHANGED <<armed, nonBridgeVars>>

\* process_iocp_completion: mutable_state.result = Some(IocpResult { .. })
CbStore(o) ==
    /\ Running
    /\ ops[o].cbPc = "locked"
    /\ ops' = [ops EXCEPT ![o].cbPc = "stored",
                          ![o].result = Some(ops[o].cbArg),
                          ![o].cbWrites = @ + 1]
    /\ UNCHANGED <<armed, nonBridgeVars>>

\* process_iocp_completion: if let Some(waker) = .. { waker.wake_by_ref() }
CbWake(o) ==
    /\ Running
    /\ ops[o].cbPc = "stored"
    /\ ops' = [ops EXCEPT ![o].cbPc = "waked",
                          ![o].woken = @ \/ ops[o].waker # None,
                          ![o].wakeHeld = IF ops[o].waker # None
                                          THEN ops[o].lock ELSE @,
                          ![o].wokenBy = IF ops[o].waker # None
                                         THEN ops[o].waker[1] ELSE @]
    /\ UNCHANGED <<armed, nonBridgeVars>>

\* process_iocp_completion returns (the guard unlocks) and the closure of
\* io_completion_function drops the Box
CbExit(o) ==
    /\ Running
    /\ ops[o].cbPc = "waked"
    /\ ops' = [ops EXCEPT ![o].cbPc = "done", ![o].lock = "free",
                          ![o].alloc = FreeBox(@),
                          ![o].cbFrees = @ + 1,
                          ![o].arc = @ - 1]
    /\ UNCHANGED <<armed, nonBridgeVars>>

\* io_completion_function: self.state.lock().unwrap() on a poisoned Mutex
\* panics; the unwinding drops the Box and catch_unwind catches it
CbEnterPoisoned(o) ==
    /\ Running
    /\ ops[o].cbPc = "queued"
    /\ ops[o].lock = "free"
    /\ ops[o].poison
    /\ \E r \in CompletionOutcomes :
          ops' = [ops EXCEPT ![o].cbPc = "caught", ![o].cbArg = r,
                             ![o].cbFault = "lock",
                             ![o].uaf = @ \/ ops[o].alloc # "live",
                             ![o].alloc = FreeBox(@),
                             ![o].cbFrees = @ + 1,
                             ![o].arc = @ - 1]
    /\ armed' = armed - 1
    /\ UNCHANGED nonBridgeVars

\* process_iocp_completion: waker.wake_by_ref() panics; the unwinding drops
\* the guard, which poisons and unlocks the Mutex, and the Box, and
\* catch_unwind catches it
CbWakePanics(o) ==
    /\ Running
    /\ ops[o].cbPc = "stored"
    /\ ops[o].waker # None
    /\ ops' = [ops EXCEPT ![o].cbPc = "caught", ![o].cbFault = "waker",
                          ![o].wakeHeld = ops[o].lock,
                          ![o].lock = "free", ![o].poison = TRUE,
                          ![o].alloc = FreeBox(@),
                          ![o].cbFrees = @ + 1,
                          ![o].arc = @ - 1]
    /\ UNCHANGED <<armed, nonBridgeVars>>

\* An io_completion_function that returns to the pool after a panic.
CbSwallowsPanic(o) ==
    /\ Running
    /\ ops[o].cbPc = "caught"
    /\ ops' = [ops EXCEPT ![o].cbPc = "done"]
    /\ UNCHANGED <<armed, nonBridgeVars>>

\* io_completion_function: if unwound.is_err() { std::process::abort() }
CbAbort(o) ==
    /\ Running
    /\ ops[o].cbPc = "caught"
    /\ ops' = [ops EXCEPT ![o].cbPc = "aborted"]
    /\ proc' = "aborted"
    /\ UNCHANGED <<armed, wa, sockVars, streamVars, work>>

\* The executor polls a future it holds for the first time, and again after
\* its waker was invoked.
Scheduled(o) == ops[o].fut = "held" \/ ops[o].woken

\* IocpFuture::poll: self.state.lock()
PollLock(o) ==
    /\ Running
    /\ ops[o].fut \in {"held", "waiting", "ready"}
    /\ ~ops[o].polling
    /\ ops[o].lock = "free"
    /\ ~ops[o].poison
    /\ Scheduled(o) \/ ops[o].spurious < MaxSpurious
    /\ ops' = [ops EXCEPT ![o].polling = TRUE, ![o].lock = "poll",
                          ![o].polls = @ + 1,
                          ![o].spurious = IF Scheduled(o) THEN @ ELSE @ + 1,
                          ![o].woken = FALSE]
    /\ UNCHANGED <<armed, nonBridgeVars>>

\* A poll that returns Pending without recording the waker.
PollBodyForgetsWaker(o) ==
    /\ Running
    /\ ops[o].polling
    /\ ops' = [ops EXCEPT ![o].polling = FALSE, ![o].lock = "free",
                          ![o].fut = IF ops[o].result # None
                                     THEN "ready" ELSE "waiting",
                          ![o].got = IF ops[o].result # None
                                     THEN ops[o].result ELSE @,
                          ![o].seen = IF ops[o].result # None
                                      THEN "full" ELSE "empty",
                          ![o].firstGot = IF ops[o].result # None /\ @ = None
                                          THEN ops[o].result ELSE @,
                          ![o].firstReadyAt =
                              IF ops[o].result # None /\ @ = 0
                              THEN ops[o].polls ELSE @,
                          ![o].lastPending = IF ops[o].result # None
                                             THEN @ ELSE ops[o].polls]
    /\ UNCHANGED <<armed, nonBridgeVars>>

\* A poll that takes the result out of the slot when it returns it.
PollBodyTakesResult(o) ==
    /\ Running
    /\ ops[o].polling
    /\ ops' = [ops EXCEPT ![o].polling = FALSE, ![o].lock = "free",
                          ![o].fut = IF ops[o].result # None
                                     THEN "ready" ELSE "waiting",
                          ![o].got = IF ops[o].result # None
                                     THEN ops[o].result ELSE @,
                          ![o].seen = IF ops[o].result # None
                                      THEN "full" ELSE "empty",
                          ![o].firstGot = IF ops[o].result # None /\ @ = None
                                          THEN ops[o].result ELSE @,
                          ![o].firstReadyAt =
                              IF ops[o].result # None /\ @ = 0
                              THEN ops[o].polls ELSE @,
                          ![o].result = None,
                          ![o].waker = IF ops[o].result # None
                                       THEN @ ELSE Some(ops[o].polls),
                          ![o].lastPending = IF ops[o].result # None
                                             THEN @ ELSE ops[o].polls]
    /\ UNCHANGED <<armed, nonBridgeVars>>

\* IocpFuture::poll: Ready(*result), or store the waker and Pending
PollBody(o) ==
    /\ Running
    /\ ops[o].polling
    /\ ops' = [ops EXCEPT ![o].polling = FALSE, ![o].lock = "free",
                          ![o].fut = IF ops[o].result # None
                                     THEN "ready" ELSE "waiting",
                          ![o].got = IF ops[o].result # None
                                     THEN ops[o].result ELSE @,
                          ![o].seen = IF ops[o].result # None
                                      THEN "full" ELSE "empty",
                          ![o].firstGot = IF ops[o].result # None /\ @ = None
                                          THEN ops[o].result ELSE @,
                          ![o].firstReadyAt =
                              IF ops[o].result # None /\ @ = 0
                              THEN ops[o].polls ELSE @,
                          ![o].waker = IF ops[o].result # None
                                       THEN @ ELSE Some(ops[o].polls),
                          ![o].lastPending = IF ops[o].result # None
                                             THEN @ ELSE ops[o].polls]
    /\ UNCHANGED <<armed, nonBridgeVars>>

\* The consumer drops the IocpFuture (its Arc reference goes away).
DropFuture(o) ==
    /\ Running
    /\ ops[o].fut \in {"held", "waiting", "ready"}
    /\ ~ops[o].polling
    /\ ops' = [ops EXCEPT ![o].fut = "dropped", ![o].arc = @ - 1,
                          ![o].droppedAt = ops[o].cbPc]
    /\ UNCHANGED <<armed, nonBridgeVars>>

(***************************************************************************)
(* AsyncTcpStream::write_all.  wa is one call:                             *)
(*   pc      idle, loop (at the while test), pending (the send went        *)
(*           pending and poll_write awaits its completion), resolved       *)
(*           (poll_write's future resolved), done                          *)
(*   len     buf.len()                                                     *)
(*   ndx     the offset                                                    *)
(*   res     the IocpResult the current poll_write resolved to             *)
(*   last    what the last poll_write returned                             *)
(*   ret     what write_all returned                                       *)
(*   writes, sum   the sends issued, and the sum of the counts consumed    *)
(***************************************************************************)
WriteIdle ==
    wa = [pc |-> "idle", len |-> 0, ndx |-> 0, res |-> IocpResult(0, 0),
          last |-> None, ret |-> None, writes |-> 0, sum |-> 0]

WriteInit ==
    \E n \in 0..MaxLen :
        wa = [pc |-> "loop", len |-> n, ndx |-> 0, res |-> IocpResult(0, 0),
              last |-> None, ret |-> None, writes |-> 0, sum |-> 0]

\* What WSASend on k bytes and the GetLastError that follows it can report:
\* 0 with the count sent, or SOCKET_ERROR with a nonzero last error.
SendOutcomes(k) ==
    {[ret |-> Some(n), err |-> 0] : n \in 0..k}
    \cup {[ret |-> None, err |-> e] : e \in {ERROR_IO_PENDING} \cup OsErrors}

\* What the completion of a pending WSASend on k bytes reports.
SendCompletions(k) ==
    {IocpResult(e, n) : e \in {0} \cup OsErrors, n \in 0..k}

\* A loop test that stops one byte early.
WriteAllContinueShort(ndx, len) == ndx + 1 < len

\* write_all: while ndx < buf.len()
WriteAllContinue(ndx, len) == ndx < len

\* write_all: self.poll_write(&buf[ndx..]), which is start_async_io on a
\* WSASend of the rest of the buffer
PollWriteIssue ==
    /\ wa.pc = "loop"
    /\ WriteAllContinue(wa.ndx, wa.len)
    /\ \E out \in SendOutcomes(wa.len - wa.ndx) :
          wa' = [wa EXCEPT !.writes = @ + 1,
                           !.pc = IF IsPending(StartRc(out))
                                  THEN "pending" ELSE "resolved",
                           !.res = StartRc(out)]
    /\ UNCHANGED <<bridgeVars, sockVars, streamVars, poolVars>>

\* poll_write: .await on a send that went pending; the completion callback
\* stores the result
PollWriteComplete ==
    /\ wa.pc = "pending"
    /\ \E r \in SendCompletions(wa.len - wa.ndx) :
          wa' = [wa EXCEPT !.pc = "resolved", !.res = r]
    /\ UNCHANGED <<bridgeVars, sockVars, streamVars, poolVars>>

\* A loop body that takes a send of 0 bytes for progress.
WriteAllStepNoZeroCheck ==
    /\ wa.pc = "resolved"
    /\ LET r == get_number_of_bytes_transferred(wa.res) IN
          wa' = IF r.tag = "Err"
                THEN [wa EXCEPT !.pc = "done", !.last = Some(r),
                                !.ret = Some(r)]
                ELSE [wa EXCEPT !.pc = "loop", !.last = Some(r),
                                !.ndx = @ + r.val, !.sum = @ + r.val]
    /\ UNCHANGED <<bridgeVars, sockVars, streamVars, poolVars>>

\* write_all: let sent = self.poll_write(..).await?; if sent == 0 { return
\* Err("disconnected") }; ndx += sent
WriteAllStep ==
    /\ wa.pc = "resolved"
    /\ LET r == get_number_of_bytes_transferred(wa.res) IN
          wa' = IF r.tag = "Err"
                THEN [wa EXCEPT !.pc = "done", !.last = Some(r),
                                !.ret = Some(r)]
                ELSE IF r.val = 0
                THEN [wa EXCEPT !.pc = "done", !.last = Some(r),
                                !.ret = Some(OtherError("disconnected"))]
                ELSE [wa EXCEPT !.pc = "loop", !.last = Some(r),
                                !.ndx = @ + r.val, !.sum = @ + r.val]
    /\ UNCHANGED <<bridgeVars, sockVars, streamVars, poolVars>>

\* write_all: the loop ends, Ok(())
WriteAllReturn ==
    /\ wa.pc = "loop"
    /\ ~WriteAllContinue(wa.ndx, wa.len)
    /\ wa' = [wa EXCEPT !.pc = "done", !.ret = Some(Ok(0))]
    /\ UNCHANGED <<bridgeVars, sockVars, streamVars, poolVars>>

(***************************************************************************)
(* The sockets: AsyncTcpListener::bind and accept, AsyncTcpStream::connect *)
(* and new, and the reads and writes of a wrapped stream.                  *)
(*                                                                         *)
(* handles[h], one per OS socket:                                          *)
(*   open        the socket exists                                         *)
(*   suppressed  times disable_callbacks_on_synchronous_completion         *)
(*               returned Ok on it                                         *)
(*   suppressFailed   it returned an error on it                           *)
(*   tpio        Tpio registrations created for it                         *)
(*   started     start_async_io calls issued through its Tpio              *)
(*   newPc       where AsyncTcpStream::new is on it                        *)
(*   newErr      the error AsyncTcpStream::new returned                    *)
(*   wrapped     an AsyncTcpStream holds it                                *)
(* listener: where bind is, the address family, accept_fnptr, bind's error *)
(* cache:    the ipv4_ptr and ipv6_ptr of get_acceptex's static CACHE, and *)
(*           log, the lookups made in it so far: the family, the result,   *)
(*           whether the WSAIoctl was issued, the entry before and after   *)
(* conn:     where connect is                                              *)
(* acc, the current call of accept:                                        *)
(*   pc      idle, suppress, issue, pending, completed, promote, wrap,     *)
(*           returned, panicked, faulted                                   *)
(*   h       the socket it created                                         *)
(*   calls   calls made so far                                             *)
(*   trace   the steps it has executed, in order                           *)
(*   oks     the steps that succeeded                                      *)
(*   res     the IocpResult of the accept operation, path: which path      *)
(*           produced it                                                   *)
(*   ret     what accept returned                                          *)
(*   failed  the step that failed                                          *)
(*   lastErr the last-error code of the OS at the failed step              *)
(*   issues, promotes   accept operations and promotion calls issued       *)
(***************************************************************************)
AcceptHandles == <<"A1", "A2">>

Handles == {"L", "C", "A1", "A2"}

\* The return value of a failed winsock call.
SOCKET_ERROR == -1

HandleInit ==
    [open |-> FALSE, suppressed |-> 0, suppressFailed |-> FALSE, tpio |-> 0,
     started |-> 0, newPc |-> "none", newErr |-> 0, wrapped |-> FALSE]

AccInit ==
    [pc |-> "idle", h |-> "", calls |-> 0, trace |-> <<>>, oks |-> {},
     res |-> IocpResult(0, 0), path |-> "", ret |-> None, failed |-> "",
     lastErr |-> 0, issues |-> 0, promotes |-> 0]

SockIdle ==
    /\ handles = <<>>
    /\ listener = <<>>
    /\ cache = <<>>
    /\ conn = <<>>
    /\ acc = <<>>

\* static CACHE: both entries start null
SockInit ==
    /\ handles = [h \in Handles |-> HandleInit]
    /\ listener = [pc |-> "start", fam |-> "V4", fnptr |-> "null", err |-> 0]
    /\ cache = [V4 |-> "null", V6 |-> "null", log |-> <<>>]
    /\ conn = [pc |-> "start", err |-> 0]
    /\ acc = AccInit

\* What accept returns.
AcceptOk(h) == [tag |-> "Ok", stream |-> h, code |-> 0]

AcceptErr(c) == [tag |-> "Err", stream |-> "", code |-> c]

\* The process is gone (a fault), so nothing of it runs any more.
Faulted == acc.pc = "faulted"

\* TcpListener::bind(addr)?
BindSocket ==
    /\ ~Faulted
    /\ listener.pc = "start"
    /\ \/ \E f \in {"V4", "V6"} :
            /\ listener' = [listener EXCEPT !.pc = "suppress", !.fam = f]
            /\ handles' = [handles EXCEPT !["L"].open = TRUE]
       \/ \E e \in OsErrors :
            /\ listener' = [listener EXCEPT !.pc = "failed", !.err = e]
            /\ UNCHANGED handles
    /\ UNCHANGED <<bridgeVars, writeVars, streamVars, poolVars,
                 cache, conn, acc>>

\* bind: disable_callbacks_on_synchronous_completion(&listener)?
BindSuppress ==
    /\ ~Faulted
    /\ listener.pc = "suppress"
    /\ \/ /\ listener' = [listener EXCEPT !.pc = "getfn"]
          /\ handles' = [handles EXCEPT !["L"].suppressed = @ + 1]
       \/ \E e \in OsErrors :
            /\ listener' = [listener EXCEPT !.pc = "failed", !.err = e]
            /\ handles' = [handles EXCEPT !["L"].suppressFailed = TRUE,
                                          !["L"].open = FALSE]
    /\ UNCHANGED <<bridgeVars, writeVars, streamVars, poolVars,
                 cache, conn, acc>>

\* What get_ptr meets: whether local_addr succeeds, whether the WSAIoctl
\* succeeds, and the last error of whichever fails.
GetPtrEnvs == [addrOk : BOOLEAN, ioctlOk : BOOLEAN, err : OsErrors]

\* WsaFunctionCache::get_ptr: the result, the cache afterwards, and whether
\* the WSAIoctl was issued
get_ptr(c, fam, env) ==
    IF ~env.addrOk
    THEN [tag |-> "Err", ptr |-> "null", code |-> env.err, cache |-> c,
          queried |-> FALSE]
    ELSE IF c[fam] = "null"
    THEN [tag |-> "Ok", ptr |-> c[fam], code |-> 0, cache |-> c,
          queried |-> FALSE]
    ELSE IF env.ioctlOk
    THEN [tag |-> "Ok", ptr |-> "AcceptEx", code |-> 0,
          cache |-> [c EXCEPT ![fam] = "AcceptEx"], queried |-> TRUE]
    ELSE [tag |-> "Err", ptr |-> "null", code |-> env.err, cache |-> c,
          queried |-> TRUE]

\* The cache after a lookup of family fam with result r, the lookup logged.
Logged(c, fam, r) ==
    [r.cache EXCEPT !.log = Append(@, [fam |-> fam, tag |-> r.tag,
                                        ptr |-> r.ptr, queried |-> r.queried,
                                        before |-> c[fam],
                                        after |-> r.cache[fam]])]

\* WsaFunctionCache::get_acceptex, as one more bind calls it on a listening
\* socket of either family
CacheLookup ==
    /\ Len(cache.log) < MaxLookups
    /\ \E fam \in {"V4", "V6"}, env \in GetPtrEnvs :
          cache' = Logged(cache, fam, get_ptr(cache, fam, env))
    /\ UNCHANGED <<bridgeVars, writeVars, streamVars, poolVars,
                 handles, listener, conn, acc>>

\* bind: WsaFunctionCache::get_acceptex(&listener)?
BindGetAcceptEx ==
    /\ ~Faulted
    /\ listener.pc = "getfn"
    /\ \E env \in GetPtrEnvs :
          LET r == get_ptr(cache, listener.fam, env) IN
          /\ cache' = Logged(cache, listener.fam, r)
          /\ IF r.tag = "Ok"
             THEN /\ listener' = [listener EXCEPT !.pc = "tpio",
                                                  !.fnptr = r.ptr]
                  /\ UNCHANGED handles
             ELSE /\ listener' = [listener EXCEPT !.pc = "failed",
                                                  !.err = r.code]
                  /\ handles' = [handles EXCEPT !["L"].open = FALSE]
    /\ UNCHANGED <<bridgeVars, writeVars, streamVars, poolVars,
                 conn, acc>>

\* bind: Tpio::new(hand)?
BindTpio ==
    /\ ~Faulted
    /\ listener.pc = "tpio"
    /\ \/ /\ listener' = [listener EXCEPT !.pc = "bound"]
          /\ handles' = [handles EXCEPT !["L"].tpio = @ + 1]
       \/ \E e \in OsErrors :
            /\ listener' = [listener EXCEPT !.pc = "failed", !.err = e]
            /\ handles' = [handles EXCEPT !["L"].open = FALSE]
    /\ UNCHANGED <<bridgeVars, writeVars, streamVars, poolVars,
                 cache, conn, acc>>

\* connect: TcpStream::connect(addr)?, then Self::new
ConnectSocket ==
    /\ ~Faulted
    /\ conn.pc = "start"
    /\ \/ /\ conn' = [conn EXCEPT !.pc = "new"]
          /\ handles' = [handles EXCEPT !["C"].open = TRUE,
                                        !["C"].newPc = "suppress"]
       \/ \E e \in OsErrors :
            /\ conn' = [conn EXCEPT !.pc = "failed", !.err = e]
            /\ UNCHANGED handles
    /\ UNCHANGED <<bridgeVars, writeVars, streamVars, poolVars,
                 cache, listener, acc>>

\* An AsyncTcpStream::new that goes on when the suppressor failed.
StreamNewSuppressUnchecked(h) ==
    /\ ~Faulted
    /\ handles[h].newPc = "suppress"
    /\ \/ handles' = [handles EXCEPT ![h].newPc = "tpio",
                                      ![h].suppressed = @ + 1]
       \/ handles' = [handles EXCEPT ![h].newPc = "tpio",
                                      ![h].suppressFailed = TRUE]
    /\ UNCHANGED <<bridgeVars, writeVars, streamVars, poolVars,
                 cache, listener, conn, acc>>

\* AsyncTcpStream::new: disable_callbacks_on_synchronous_completion(&stream)?
StreamNewSuppress(h) ==
    /\ ~Faulted
    /\ handles[h].newPc = "suppress"
    /\ \/ handles' = [handles EXCEPT ![h].newPc = "tpio",
                                      ![h].suppressed = @ + 1]
       \/ \E e \in OsErrors :
            handles' = [handles EXCEPT ![h].newPc = "err", ![h].newErr = e,
                                       ![h].suppressFailed = TRUE,
                                       ![h].open = FALSE]
    /\ UNCHANGED <<bridgeVars, writeVars, streamVars, poolVars,
                 cache, listener, conn, acc>>

\* AsyncTcpStream::new: Tpio::new(&stream)?; Ok(AsyncTcpStream { .. })
StreamNewTpio(h) ==
    /\ ~Faulted
    /\ handles[h].newPc = "tpio"
    /\ \/ handles' = [handles EXCEPT ![h].newPc = "ok", ![h].tpio = @ + 1,
                                      ![h].wrapped = TRUE]
       \/ \E e \in OsErrors :
            handles' = [handles EXCEPT ![h].newPc = "err", ![h].newErr = e,
                                       ![h].open = FALSE]
    /\ UNCHANGED <<bridgeVars, writeVars, streamVars, poolVars,
                 cache, listener, conn, acc>>

\* connect: Ok(Self::new(..)?)
ConnectReturn ==
    /\ ~Faulted
    /\ conn.pc = "new"
    /\ handles["C"].newPc \in {"ok", "err"}
    /\ conn' = IF handles["C"].newPc = "ok"
               THEN [conn EXCEPT !.pc = "ready"]
               ELSE [conn EXCEPT !.pc = "failed",
                                 !.err = handles["C"].newErr]
    /\ UNCHANGED <<bridgeVars, writeVars, streamVars, poolVars,
                 cache, listener, handles, acc>>

\* poll_read, poll_write: start_async_io(&self.tp_io, ..) on a wrapped stream
StreamIo(h) ==
    /\ ~Faulted
    /\ handles[h].wrapped
    /\ handles[h].started < MaxIo
    /\ handles' = [handles EXCEPT ![h].started = @ + 1]
    /\ UNCHANGED <<bridgeVars, writeVars, streamVars, poolVars,
                 cache, listener, conn, acc>>

\* What the call through accept_fnptr and the GetLastError that follows it
\* can report.  AcceptEx returns TRUE with the bytes received, or FALSE with
\* a nonzero last error.  A call through a null accept_fnptr is undefined:
\* the process may fault, or the call may return anything AcceptEx can.
AcceptFnOutcomes(fnptr) ==
    {[fault |-> FALSE, ret |-> Some(n), err |-> 0] : n \in 0..MaxBytes}
    \cup {[fault |-> FALSE, ret |-> None, err |-> e] :
             e \in {ERROR_IO_PENDING} \cup OsErrors}
    \cup (IF fnptr = "null"
          THEN {[fault |-> TRUE, ret |-> None, err |-> 0]}
          ELSE {})

Append2(t, a, b) == Append(Append(t, a), b)

\* accept: FromRawSocket::from_raw_socket(self._create_accept_socket()?)
AcceptCreateSocket ==
    /\ ~Faulted
    /\ listener.pc = "bound"
    /\ acc.pc \in {"idle", "returned"}
    /\ acc.calls < Len(AcceptHandles)
    /\ LET h == AcceptHandles[acc.calls + 1] IN
       \/ /\ acc' = [AccInit EXCEPT !.pc = "suppress", !.h = h,
                                     !.calls = acc.calls + 1,
                                     !.trace = <<"socket">>,
                                     !.oks = {"socket"}]
          /\ handles' = [handles EXCEPT ![h].open = TRUE]
       \/ \E e \in OsErrors :
            /\ acc' = [AccInit EXCEPT !.pc = "returned", !.h = h,
                                      !.calls = acc.calls + 1,
                                      !.trace = <<"socket">>,
                                      !.failed = "socket", !.lastErr = e,
                                      !.ret = Some(AcceptErr(e))]
            /\ UNCHANGED handles
    /\ UNCHANGED <<bridgeVars, writeVars, streamVars, poolVars,
                 cache, listener, conn>>

\* accept: disable_callbacks_on_synchronous_completion(&stream)?
AcceptSuppress ==
    /\ ~Faulted
    /\ acc.pc = "suppress"
    /\ \/ /\ acc' = [acc EXCEPT !.pc = "issue",
                                  !.trace = Append(@, "suppress"),
                                  !.oks = @ \cup {"suppress"}]
          /\ handles' = [handles EXCEPT ![acc.h].suppressed = @ + 1]
       \/ \E e \in OsErrors :
            /\ acc' = [acc EXCEPT !.pc = "returned",
                                  !.trace = Append(@, "suppress"),
                                  !.failed = "suppress", !.lastErr = e,
                                  !.ret = Some(AcceptErr(e))]
            /\ handles' = [handles EXCEPT ![acc.h].suppressFailed = TRUE,
                                          ![acc.h].open = FALSE]
    /\ UNCHANGED <<bridgeVars, writeVars, streamVars, poolVars,
                 cache, listener, conn>>

\* accept: self.listener.local_addr()?, then start_async_io(&self.tp_io, ..)
\* on the call through accept_fnptr
AcceptIssue ==
    /\ ~Faulted
    /\ acc.pc = "issue"
    /\ \/ \E e \in OsErrors :
            /\ acc' = [acc EXCEPT !.pc = "returned", !.failed = "addr",
                                  !.lastErr = e,
                                  !.ret = Some(AcceptErr(e))]
            /\ handles' = [handles EXCEPT ![acc.h].open = FALSE]
       \/ \E out \in AcceptFnOutcomes(listener.fnptr) :
            IF out.fault
            THEN /\ acc' = [acc EXCEPT !.pc = "faulted",
                                       !.issues = @ + 1,
                                       !.trace = Append(@, "issue")]
                 /\ handles' = [handles EXCEPT !["L"].started = @ + 1]
            ELSE /\ acc' = IF IsPending(StartRc(out))
                           THEN [acc EXCEPT !.pc = "pending",
                                            !.issues = @ + 1,
                                            !.trace = Append(@, "issue")]
                           ELSE [acc EXCEPT !.pc = "completed",
                                            !.issues = @ + 1,
                                            !.res = StartRc(out),
                                            !.path = "sync",
                                            !.trace = Append2(@, "issue",
                                                              "complete")]
                 /\ handles' = [handles EXCEPT !["L"].started = @ + 1]
    /\ UNCHANGED <<bridgeVars, writeVars, streamVars, poolVars,
                 cache, listener, conn>>

\* accept: .await on an accept that went pending; the completion callback
\* stores the result
AcceptComplete ==
    /\ ~Faulted
    /\ acc.pc = "pending"
    /\ \E r \in CompletionOutcomes :
          acc' = [acc EXCEPT !.pc = "completed", !.res = r,
                             !.path = "callback",
                             !.trace = Append(@, "complete")]
    /\ UNCHANGED <<bridgeVars, writeVars, streamVars, poolVars,
                 cache, listener, conn, handles>>

\* An accept that lets received bytes pass.
AcceptVerdictLenient(r) ==
    IF get_number_of_bytes_transferred(r).tag = "Err" THEN "error"
    ELSE "continue"

\* accept: if 0 != ret.get_number_of_bytes_transferred()? { panic!(..) }
AcceptVerdict(r) ==
    IF get_number_of_bytes_transferred(r).tag = "Err" THEN "error"
    ELSE IF 0 # get_number_of_bytes_transferred(r).val THEN "panic"
    ELSE "continue"

\* An accept that wraps the socket without promoting its context.
AfterAcceptedSkipsPromotion == "wrap"

\* accept: what follows the check of the accept's result
AfterAccepted == "promote"

AcceptCheck ==
    /\ ~Faulted
    /\ acc.pc = "completed"
    /\ \/ /\ AcceptVerdict(acc.res) = "error"
          /\ acc' = [acc EXCEPT
                        !.pc = "returned", !.failed = "accept",
                        !.lastErr = acc.res.io_result,
                        !.ret = Some(AcceptErr(
                            get_number_of_bytes_transferred(acc.res).code))]
          /\ handles' = [handles EXCEPT ![acc.h].open = FALSE]
       \/ /\ AcceptVerdict(acc.res) = "panic"
          /\ acc' = [acc EXCEPT !.pc = "panicked"]
          /\ handles' = [handles EXCEPT ![acc.h].open = FALSE]
       \/ /\ AcceptVerdict(acc.res) = "continue"
          /\ acc' = [acc EXCEPT !.pc = AfterAccepted,
                                !.oks = @ \cup {"issue", "complete"}]
          /\ UNCHANGED handles
    /\ UNCHANGED <<bridgeVars, writeVars, streamVars, poolVars,
                 cache, listener, conn>>

\* accept: Err(io::Error::from_raw_os_error(ret)), ret being what setsockopt
\* returned
PromoteErrorCode(ret, lastError) == ret

\* An accept that calls setsockopt again when it failed.
AcceptPromoteRetries ==
    /\ ~Faulted
    /\ acc.pc = "promote"
    /\ acc.promotes < 3
    /\ \/ /\ acc' = [acc EXCEPT !.pc = "wrap", !.promotes = @ + 1,
                                  !.trace = Append(@, "promote"),
                                  !.oks = @ \cup {"promote"}]
       \/ /\ acc' = [acc EXCEPT !.promotes = @ + 1,
                                  !.trace = Append(@, "promote")]
    /\ UNCHANGED <<bridgeVars, writeVars, streamVars, poolVars,
                 cache, listener, conn, handles>>

\* accept: setsockopt(accept_handle, SOL_SOCKET, SO_UPDATE_ACCEPT_CONTEXT, ..)
\* and if ret != 0 { return Err(..) }
AcceptPromote ==
    /\ ~Faulted
    /\ acc.pc = "promote"
    /\ \/ /\ acc' = [acc EXCEPT !.pc = "wrap", !.promotes = @ + 1,
                                  !.trace = Append(@, "promote"),
                                  !.oks = @ \cup {"promote"}]
          /\ UNCHANGED handles
       \/ \E e \in OsErrors :
            /\ acc' = [acc EXCEPT
                          !.pc = "returned", !.promotes = @ + 1,
                          !.trace = Append(@, "promote"),
                          !.failed = "promote", !.lastErr = e,
                          !.ret = Some(AcceptErr(
                                    PromoteErrorCode(SOCKET_ERROR, e)))]
            /\ handles' = [handles EXCEPT ![acc.h].open = FALSE]
    /\ UNCHANGED <<bridgeVars, writeVars, streamVars, poolVars,
                 cache, listener, conn>>

\* An accept that registers the listening socket for the accepted stream.
AcceptWrapRegistersListener ==
    /\ ~Faulted
    /\ acc.pc = "wrap"
    /\ acc' = [acc EXCEPT !.pc = "wrapping", !.trace = Append(@, "wrap")]
    /\ handles' = [handles EXCEPT ![acc.h].newPc = "suppress",
                                  !["L"].tpio = @ + 1]
    /\ UNCHANGED <<bridgeVars, writeVars, streamVars, poolVars,
                 cache, listener, conn>>

\* accept: AsyncTcpStream::new(stream) is entered
AcceptWrap ==
    /\ ~Faulted
    /\ acc.pc = "wrap"
    /\ acc' = [acc EXCEPT !.pc = "wrapping", !.trace = Append(@, "wrap")]
    /\ handles' = [handles EXCEPT ![acc.h].newPc = "suppress"]
    /\ UNCHANGED <<bridgeVars, writeVars, streamVars, poolVars,
                 cache, listener, conn>>

\* accept: Ok(AsyncTcpStream::new(stream)?)
AcceptReturn ==
    /\ ~Faulted
    /\ acc.pc = "wrapping"
    /\ handles[acc.h].newPc \in {"ok", "err"}
    /\ acc' = IF handles[acc.h].newPc = "ok"
              THEN [acc EXCEPT !.pc = "returned",
                               !.oks = @ \cup {"wrap"},
                               !.ret = Some(AcceptOk(acc.h))]
              ELSE [acc EXCEPT !.pc = "returned", !.failed = "wrap",
                               !.lastErr = handles[acc.h].newErr,
                               !.ret = Some(AcceptErr(
                                          handles[acc.h].newErr))]
    /\ UNCHANGED <<bridgeVars, writeVars, streamVars, poolVars,
                 cache, listener, conn, handles>>

(***************************************************************************)
(* One AsyncTcpStream after its construction, the calls of poll_read and   *)
(* poll_write on it, and its drop; or one AsyncTcpListener after bind and  *)
(* its drop (its calls of accept are in the socket part).  sio:            *)
(*   owner   the struct holding the socket and the Tpio: stream, listener  *)
(*   dropped how many of its fields have been dropped                      *)
(*   sock    the TcpStream's socket: open, closed                          *)
(*   tpio    the Tpio: live, released                                      *)
(*   calls[c], one per call of poll_read or poll_write:                    *)
(*     pc       idle, pending (the future awaits the completion),          *)
(*              resolved (the future of start_async_io resolved),          *)
(*              returned                                                   *)
(*     kind     read, write                                                *)
(*     issued   WSARecv / WSASend calls made for it                        *)
(*     osOwned  the operation is pending in the OS and its completion      *)
(*              callback has not run                                       *)
(*     os       the result code and count the OS reported on the path      *)
(*              that completed the operation, path: sync, callback         *)
(*     res      the IocpResult the future resolved to                      *)
(*     ret      what the call returned                                     *)
(*     fut      the call's future: none, alive, dropped, done              *)
(***************************************************************************)
Calls == {1, 2}

CallInit ==
    [pc |-> "idle", kind |-> "", issued |-> 0, osOwned |-> FALSE,
     os |-> [code |-> 0, n |-> 0], path |-> "", res |-> IocpResult(0, 0),
     ret |-> None, fut |-> "none"]

StreamIdle == sio = <<>>

\* A struct whose registration comes before its socket.
FieldsTpioFirst(owner) ==
    IF owner = "stream"
    THEN <<"tp_io", "stream">>
    ELSE <<"tp_io", "listener", "accept_fnptr">>

\* The fields of AsyncTcpStream and of AsyncTcpListener in the order of
\* their declaration, which is the order in which a dropped struct drops
\* them.
Fields(owner) ==
    IF owner = "stream"
    THEN <<"stream", "tp_io">>
    ELSE <<"listener", "tp_io", "accept_fnptr">>

\* The field the drop of the struct comes to next.
NextField ==
    IF sio.dropped < Len(Fields(sio.owner))
    THEN Fields(sio.owner)[sio.dropped + 1]
    ELSE "none"

\* Ok(AsyncTcpStream { stream, tp_io }), or
\* Ok(AsyncTcpListener { listener, tp_io, accept_fnptr })
StreamInit ==
    \E owner \in {"stream", "listener"} :
        sio = [owner |-> owner, dropped |-> 0, sock |-> "open",
               tpio |-> "live", calls |-> [c \in Calls |-> CallInit]]

\* What WSARecv into k bytes and the GetLastError that follows it can report:
\* 0 with the count received, or SOCKET_ERROR with a nonzero last error.
RecvOutcomes(k) ==
    {[ret |-> Some(n), err |-> 0] : n \in 0..k}
    \cup {[ret |-> None, err |-> e] : e \in {ERROR_IO_PENDING} \cup OsErrors}

\* The closure of poll_read or poll_write.
StreamOpOutcomes(kind) ==
    IF kind = "read" THEN RecvOutcomes(MaxBytes) ELSE SendOutcomes(MaxBytes)

\* The stream has not been dropped.
StreamAlive == sio.sock = "open" /\ sio.tpio = "live"

\* poll_read, poll_write: start_async_io(&self.tp_io, ..) on the WSARecv or
\* WSASend of the whole buffer
StreamIssue(c) ==
    /\ StreamAlive
    /\ sio.owner = "stream"
    /\ sio.calls[c].pc = "idle"
    /\ \E kind \in {"read", "write"} :
         \E out \in StreamOpOutcomes(kind) :
            sio' = [sio EXCEPT
                      !.calls[c] =
                        IF IsPending(StartRc(out))
                        THEN [@ EXCEPT !.pc = "pending", !.kind = kind,
                                       !.issued = @ + 1, !.osOwned = TRUE,
                                       !.fut = "alive"]
                        ELSE [@ EXCEPT !.pc = "resolved", !.kind = kind,
                                       !.issued = @ + 1, !.fut = "alive",
                                       !.os = [code |-> out.err,
                                               n |-> IF out.ret # None
                                                     THEN out.ret[1] ELSE 0],
                                       !.path = "sync",
                                       !.res = StartRc(out)]]
    /\ UNCHANGED <<bridgeVars, writeVars, sockVars, poolVars>>

\* The completion callback of a pending operation stores the result; a
\* future that awaits it resolves.
StreamComplete(c) ==
    /\ sio.calls[c].osOwned
    /\ \E r \in CompletionOutcomes :
          sio' = [sio EXCEPT
                    !.calls[c] =
                      [@ EXCEPT !.osOwned = FALSE,
                                !.os = [code |-> r.io_result,
                                        n |-> r.number_of_bytes_transferred],
                                !.path = "callback", !.res = r,
                                !.pc = IF @ = "pending" THEN "resolved"
                                       ELSE @]]
    /\ UNCHANGED <<bridgeVars, writeVars, sockVars, poolVars>>

\* poll_read, poll_write: ret.get_number_of_bytes_transferred()
StreamResolve(c) ==
    /\ sio.calls[c].pc = "resolved"
    /\ sio.calls[c].fut = "alive"
    /\ sio' = [sio EXCEPT
                 !.calls[c] =
                   [@ EXCEPT !.pc = "returned", !.fut = "done",
                             !.ret = Some(get_number_of_bytes_transferred(
                                            sio.calls[c].res))]]
    /\ UNCHANGED <<bridgeVars, writeVars, sockVars, poolVars>>

\* The caller drops the future of a call before it has returned.
StreamDropFuture(c) ==
    /\ sio.calls[c].pc \in {"pending", "resolved"}
    /\ sio.calls[c].fut = "alive"
    /\ sio' = [sio EXCEPT !.calls[c] = [@ EXCEPT !.pc = "dropped",
                                                 !.fut = "dropped"]]
    /\ UNCHANGED <<bridgeVars, writeVars, sockVars, poolVars>>

\* The struct is dropped, which the borrow of &self allows when no future of
\* a call is alive.
DropStarts == sio.dropped > 0 \/ \A c \in Calls : sio.calls[c].fut # "alive"

\* The drop comes to the TcpStream or TcpListener, which closes the socket.
DropStreamSocket ==
    /\ NextField \in {"stream", "listener"}
    /\ DropStarts
    /\ sio' = [sio EXCEPT !.sock = "closed", !.dropped = @ + 1]
    /\ UNCHANGED <<bridgeVars, writeVars, sockVars, poolVars>>

\* The drop comes to the Tpio.  Drop for Tpio: CloseThreadpoolIo(self.tp_io)
DropStreamTpio ==
    /\ NextField = "tp_io"
    /\ DropStarts
    /\ sio' = [sio EXCEPT !.tpio = "released", !.dropped = @ + 1]
    /\ UNCHANGED <<bridgeVars, writeVars, sockVars, poolVars>>

\* The drop comes to the listener's function pointer, which has no
\* destructor.
DropAcceptFnptr ==
    /\ NextField = "accept_fnptr"
    /\ DropStarts
    /\ sio' = [sio EXCEPT !.dropped = @ + 1]
    /\ UNCHANGED <<bridgeVars, writeVars, sockVars, poolVars>>

PoolIdle == work = <<>> /\ proc = "running"

InitStream == BridgeInit /\ WriteIdle /\ SockIdle /\ StreamInit /\ PoolIdle

NextStream ==
    \/ \E c \in Calls : StreamIssue(c)
    \/ \E c \in Calls : StreamComplete(c)
    \/ \E c \in Calls : StreamResolve(c)
    \/ \E c \in Calls : StreamDropFuture(c)
    \/ DropStreamSocket
    \/ DropStreamTpio
    \/ DropAcceptFnptr

SpecStream == InitStream /\ [][NextStream]_vars

(***************************************************************************)
(* threadpool.rs: spawn and the work callback.  work[w], one per call of   *)
(* spawn:                                                                  *)
(*   sp       where spawn is: idle, created, submitted, returned, failed   *)
(*   err      the error spawn returned                                     *)
(*   arc      strong count of the Arc<WorkItem>                            *)
(*   native   WorkItem.native: null, set                                   *)
(*   item     the WorkItem: none, live, dropped                            *)
(*   closed   CloseThreadpoolWork calls on its TP_WORK                     *)
(*   cb       where work_callback is: none, queued, entered, polled,       *)
(*            unwinding, processed, returned, aborted                      *)
(*   polls    polls of the spawned future                                  *)
(*   outcome  what the poll did: ready, pending, panic                     *)
(*   fault    what panicked inside the callback: clone, drop               *)
(* proc: running, aborted                                                  *)
(***************************************************************************)
Works == {1, 2}

\* The operation whose IocpFuture a spawned future may await.
PoolOps == {1}

WorkInit ==
    [sp |-> "idle", err |-> 0, arc |-> 0, native |-> "null",
     item |-> "none", closed |-> 0, cb |-> "none", polls |-> 0,
     outcome |-> "", fault |-> ""]

PoolInit ==
    /\ work = [w \in Works |-> WorkInit]
    /\ proc = "running"

\* WAKER_VTABLE: each of the four functions is unimplemented!()
clone_waker == "panic"

wake_waker == "panic"

wake_by_ref_waker == "panic"

drop_waker == "panic"

\* Dropping one Arc<WorkItem>: the last one drops the WorkItem, whose Drop
\* closes the TP_WORK if native is not null.
DropWorkArc(k) ==
    IF k.arc = 1
    THEN [k EXCEPT !.arc = 0, !.item = "dropped",
                   !.closed = IF k.native # "null" THEN @ + 1 ELSE @]
    ELSE [k EXCEPT !.arc = @ - 1]

\* A spawn that hands its own reference to the work object instead of a
\* clone.
SpawnCreateSharesReference(w) ==
    /\ Running
    /\ work[w].sp = "idle"
    /\ \/ work' = [work EXCEPT ![w] = [@ EXCEPT !.sp = "created", !.arc = 1,
                                                !.item = "live"]]
       \/ \E e \in OsErrors :
            work' = [work EXCEPT
                       ![w] = [DropWorkArc([@ EXCEPT !.arc = 1,
                                                     !.item = "live"])
                               EXCEPT !.sp = "failed", !.err = e]]
    /\ UNCHANGED <<bridgeVars, writeVars, sockVars, streamVars, proc>>

\* spawn: Arc::new, Arc::into_raw of a clone, CreateThreadpoolWork; if it
\* returned null, drop(Arc::from_raw(..)) and return Err(last_os_error())
SpawnCreate(w) ==
    /\ Running
    /\ work[w].sp = "idle"
    /\ \/ work' = [work EXCEPT ![w] = [@ EXCEPT !.sp = "created", !.arc = 2,
                                                !.item = "live"]]
       \/ \E e \in OsErrors :
            work' = [work EXCEPT
                       ![w] = [DropWorkArc(DropWorkArc(
                                  [@ EXCEPT !.arc = 2, !.item = "live"]))
                               EXCEPT !.sp = "failed", !.err = e]]
    /\ UNCHANGED <<bridgeVars, writeVars, sockVars, streamVars, proc>>

\* spawn: work_item.native.store(tp_work); SubmitThreadpoolWork(tp_work)
SpawnSubmit(w) ==
    /\ Running
    /\ work[w].sp = "created"
    /\ work' = [work EXCEPT ![w] = [@ EXCEPT !.sp = "submitted",
                                             !.native = "set",
                                             !.cb = "queued"]]
    /\ UNCHANGED <<bridgeVars, writeVars, sockVars, streamVars, proc>>

\* spawn: Ok(()), and work_item goes out of scope
SpawnReturn(w) ==
    /\ Running
    /\ work[w].sp = "submitted"
    /\ work' = [work EXCEPT ![w] = [DropWorkArc(@) EXCEPT !.sp = "returned"]]
    /\ UNCHANGED <<bridgeVars, writeVars, sockVars, streamVars, proc>>

\* work_callback: catch_unwind, Arc::from_raw(context); WorkItem::process:
\* Waker::from_raw(RawWaker::new(ptr::null(), &WAKER_VTABLE)), Context
WorkEnter(w) ==
    /\ Running
    /\ work[w].cb = "queued"
    /\ work' = [work EXCEPT ![w] = [@ EXCEPT !.cb = "entered"]]
    /\ UNCHANGED <<bridgeVars, writeVars, sockVars, streamVars, proc>>

\* What the spawned future does when it is polled: it completes, it returns
\* Pending without touching the waker of its context, or it polls the
\* IocpFuture of an operation it started.
FutureBehaviours == {"ready", "pending", "io"}

\* IocpFuture::poll under the placeholder waker: Ready(*result), or
\* cx.waker().clone(), which is clone_waker
PollWithPlaceholder(result) ==
    IF result # None THEN "ready" ELSE clone_waker

\* A work callback that polls again when the poll was not ready.
WorkPollUntilReady(w) ==
    /\ Running
    /\ work[w].cb = "entered"
    /\ work[w].polls < 2
    /\ \E b \in {"ready", "pending"} :
          work' = [work EXCEPT
                     ![w] = [@ EXCEPT !.cb = IF b = "ready" THEN "polled"
                                             ELSE "entered",
                                      !.polls = @ + 1, !.outcome = b]]
    /\ UNCHANGED <<bridgeVars, writeVars, sockVars, streamVars, proc>>

\* WorkItem::process: mut_self.future.as_mut().poll(&mut ctx).  A panic in
\* the poll of an IocpFuture unwinds through its guard, which poisons and
\* unlocks the Mutex.
WorkPoll(w) ==
    /\ Running
    /\ work[w].cb = "entered"
    /\ \E b \in FutureBehaviours :
          IF b = "io"
          THEN \E o \in PoolOps :
                 /\ ops[o].fut = "held" /\ ops[o].polls = 0
                 /\ ops[o].lock = "free" /\ ~ops[o].poison
                 /\ LET r == PollWithPlaceholder(ops[o].result) IN
                    IF r = "ready"
                    THEN /\ ops' = [ops EXCEPT ![o].polls = 1,
                                               ![o].seen = "full",
                                               ![o].got = ops[o].result,
                                               ![o].firstGot = ops[o].result,
                                               ![o].firstReadyAt = 1,
                                               ![o].fut = "dropped",
                                               ![o].arc = @ - 1,
                                               ![o].droppedAt = ops[o].cbPc]
                         /\ work' = [work EXCEPT
                                       ![w] = [@ EXCEPT !.cb = "polled",
                                                        !.polls = @ + 1,
                                                        !.outcome = "ready"]]
                    ELSE /\ ops' = [ops EXCEPT ![o].polls = 1,
                                               ![o].seen = "empty",
                                               ![o].poison = TRUE,
                                               ![o].fut = "panicked"]
                         /\ work' = [work EXCEPT
                                       ![w] = [@ EXCEPT !.cb = "unwinding",
                                                        !.polls = @ + 1,
                                                        !.outcome = "panic",
                                                        !.fault = "clone"]]
          ELSE /\ work' = [work EXCEPT
                             ![w] = [@ EXCEPT !.cb = "polled",
                                              !.polls = @ + 1,
                                              !.outcome = b]]
               /\ UNCHANGED ops
    /\ UNCHANGED <<armed, writeVars, sockVars, streamVars, proc>>

\* WorkItem::process returns: the Waker goes out of scope, which calls
\* drop_waker, and then self, the Arc<WorkItem>
WorkDropWaker(w) ==
    /\ Running
    /\ work[w].cb = "polled"
    /\ work' = [work EXCEPT
                  ![w] = IF drop_waker = "panic"
                         THEN [DropWorkArc(@) EXCEPT !.cb = "unwinding",
                                                     !.fault = "drop"]
                         ELSE [DropWorkArc(@) EXCEPT !.cb = "processed"]]
    /\ UNCHANGED <<bridgeVars, writeVars, sockVars, streamVars, proc>>

\* work_callback: if unwound.is_err() { std::process::abort() }, else return
WorkUnwound(w) ==
    /\ Running
    /\ work[w].cb \in {"unwinding", "processed"}
    /\ IF work[w].cb = "unwinding"
       THEN /\ work' = [work EXCEPT ![w] = [@ EXCEPT !.cb = "aborted"]]
            /\ proc' = "aborted"
       ELSE /\ work' = [work EXCEPT ![w] = [@ EXCEPT !.cb = "returned"]]
            /\ UNCHANGED proc
    /\ UNCHANGED <<bridgeVars, writeVars, sockVars, streamVars>>

InitPool == BridgeInit /\ WriteIdle /\ SockIdle /\ StreamIdle /\ PoolInit

NextPool ==
    \/ \E w \in Works : SpawnCreate(w)
    \/ \E w \in Works : SpawnSubmit(w)
    \/ \E w \in Works : SpawnReturn(w)
    \/ \E w \in Works : WorkEnter(w)
    \/ \E w \in Works : WorkPoll(w)
    \/ \E w \in Works : WorkDropWaker(w)
    \/ \E w \in Works : WorkUnwound(w)
    \/ \E o \in PoolOps :
        \/ StartAlloc(o)
        \/ StartArm(o)
        \/ StartCallOp(o)
        \/ StartPendingReturn(o)
        \/ StartCancel(o)
        \/ StartFree(o)
        \/ StartStore(o)
        \/ CbEnter(o)
        \/ CbEnterPoisoned(o)
        \/ CbStore(o)
        \/ CbWake(o)
        \/ CbWakePanics(o)
        \/ CbExit(o)
        \/ CbAbort(o)
        \/ PollLock(o)
        \/ PollBody(o)
        \/ DropFuture(o)

SpecPool == InitPool /\ [][NextPool]_vars

\* The pool runs a submitted work callback and a queued completion callback
\* to its end, and spawn and start_async_io run to their end.
PoolFairness ==
    /\ \A w \in Works :
          /\ WF_vars(SpawnCreate(w) \/ SpawnSubmit(w) \/ SpawnReturn(w))
          /\ WF_vars(WorkEnter(w) \/ WorkPoll(w) \/ WorkDropWaker(w)
                      \/ WorkUnwound(w))
    /\ \A o \in PoolOps :
          /\ WF_vars(StartAlloc(o) \/ StartArm(o) \/ StartCallOp(o)
                      \/ StartPendingReturn(o) \/ StartCancel(o)
                      \/ StartFree(o) \/ StartStore(o))
          /\ WF_vars(CbEnter(o) \/ CbEnterPoisoned(o) \/ CbStore(o)
                      \/ CbWake(o) \/ CbWakePanics(o) \/ CbExit(o)
                      \/ CbAbort(o))
          /\ WF_vars(PollBody(o))

FairPool == SpecPool /\ PoolFairness

Init == BridgeInit /\ WriteIdle /\ SockIdle /\ StreamIdle /\ PoolIdle

InitSock == BridgeInit /\ WriteIdle /\ SockInit /\ StreamIdle /\ PoolIdle

NextSock ==
    \/ BindSocket
    \/ BindSuppress
    \/ BindGetAcceptEx
    \/ BindTpio
    \/ ConnectSocket
    \/ ConnectReturn
    \/ \E h \in Handles : StreamNewSuppress(h)
    \/ \E h \in Handles : StreamNewTpio(h)
    \/ \E h \in Handles : StreamIo(h)
    \/ AcceptCreateSocket
    \/ AcceptSuppress
    \/ AcceptIssue
    \/ AcceptComplete
    \/ AcceptCheck
    \/ AcceptPromote
    \/ AcceptWrap
    \/ AcceptReturn

SpecSock == InitSock /\ [][NextSock]_vars

\* The process before any bind: the static CACHE and nothing else.
CacheInit ==
    /\ handles = <<>>
    /\ listener = <<>>
    /\ cache = [V4 |-> "null", V6 |-> "null", log |-> <<>>]
    /\ conn = <<>>
    /\ acc = <<>>

InitCache == BridgeInit /\ WriteIdle /\ CacheInit /\ StreamIdle /\ PoolIdle

NextCache == CacheLookup

SpecCache == InitCache /\ [][NextCache]_vars

InitWrite == BridgeInit /\ WriteInit /\ SockIdle /\ StreamIdle /\ PoolIdle

NextWrite ==
    \/ PollWriteIssue
    \/ PollWriteComplete
    \/ WriteAllStep
    \/ WriteAllReturn

SpecWrite == InitWrite /\ [][NextWrite]_vars

Next ==
    \E o \in Ops :
        \/ StartAlloc(o)
        \/ StartArm(o)
        \/ StartCallOp(o)
        \/ StartPendingReturn(o)
        \/ StartCancel(o)
        \/ StartFree(o)
        \/ StartStore(o)
        \/ CbEnter(o)
        \/ CbStore(o)
        \/ CbWake(o)
        \/ CbExit(o)
        \/ PollLock(o)
        \/ PollBody(o)
        \/ DropFuture(o)

Spec == Init /\ [][Next]_vars

\* The submitting thread runs start_async_io to its end, the OS delivers each
\* queued completion and the pool thread runs the callback to its end, a poll
\* that holds the lock finishes, and the executor polls a future it was just
\* given or whose waker was invoked.  Nothing obliges the consumer to poll
\* otherwise, or to drop the future.
BridgeFairness ==
    \A o \in Ops :
        /\ WF_vars(StartAlloc(o) \/ StartArm(o) \/ StartCallOp(o)
                    \/ StartPendingReturn(o) \/ StartCancel(o)
                    \/ StartFree(o) \/ StartStore(o))
        /\ WF_vars(CbEnter(o) \/ CbStore(o) \/ CbWake(o) \/ CbExit(o))
        /\ WF_vars(PollBody(o))
        /\ WF_vars(Scheduled(o) /\ PollLock(o))

FairSpec == Spec /\ BridgeFairness

(***************************************************************************)
(* Claims                                                                  *)
(***************************************************************************)

\* The OS took the operation as pending (and queued its one completion).
WentPending(o) == ops[o].cbPc # "none"

\* The operation is over: start_async_io returned and, for an operation that
\* went pending, the completion callback returned.
Completed(o) ==
    /\ ops[o].pc = "returned"
    /\ WentPending(o) => ops[o].cbPc = "done"

\* C1: with synchronous-completion notifications suppressed and one callback
\* per pending operation, the result slot of every operation is written at
\* most once at any point of any interleaving, by start_async_io only when
\* the operation did not go pending, by the completion callback only when it
\* did, and exactly once when the operation is over.
C1_ResultWrittenExactlyOnce ==
    \A o \in Ops :
        /\ ops[o].syncWrites + ops[o].cbWrites <= 1
        /\ ops[o].syncWrites = 1 => ~WentPending(o)
        /\ ops[o].cbWrites = 1 => WentPending(o)
        /\ Completed(o) => ops[o].syncWrites + ops[o].cbWrites = 1
        /\ ops[o].cbPc \in {"stored", "waked", "done"} => ops[o].cbWrites = 1
        /\ ops[o].syncWrites + ops[o].cbWrites = 0 <=> ops[o].result = None

\* C1 witness: the callback has written the result and returned while
\* start_async_io has not yet looked at rc, and the other operation was
\* written by start_async_io.
C1_Witness ==
    \E o, q \in Ops :
        /\ ops[o].pc = "called" /\ ops[o].cbPc = "done"
        /\ ops[o].cbWrites = 1
        /\ ops[q].pc = "returned" /\ ops[q].syncWrites = 1

\* The operation is pending on the consumer's side: it went pending and the
\* future has not been dropped.
AwaitedPending(o) == WentPending(o) /\ ops[o].fut # "dropped"

\* The consumer has the callback's result, or has given the future up.
Resolved(o) ==
    \/ ops[o].fut = "dropped"
    \/ /\ ops[o].fut = "ready"
       /\ ops[o].cbPc \in {"stored", "waked", "done"}
       /\ ops[o].got = Some(ops[o].cbArg)

\* After the callback has invoked the waker, a consumer still waiting has been
\* woken, by the waker of its most recent not-ready poll, with the result in
\* place.
NoLostWakeup ==
    \A o \in Ops :
        (ops[o].cbPc \in {"waked", "done"} /\ ops[o].fut = "waiting"
            /\ ~ops[o].polling)
        => /\ ops[o].woken
           /\ ops[o].wokenBy = ops[o].lastPending
           /\ ops[o].result = Some(ops[o].cbArg)

\* C2: for an operation that goes pending, under every interleaving of poll
\* with the completion callback, the consumer is never left waiting: a
\* waiting consumer is woken after the result is stored, by the waker of its
\* most recent not-ready poll, and every pending operation whose future is
\* kept is eventually ready with exactly the callback's result.
C2_NeverLeftWaiting ==
    /\ []NoLostWakeup
    /\ \A o \in Ops : AwaitedPending(o) ~> Resolved(o)

\* C2 witness: a pending operation completed by the callback with success and
\* 0 bytes after a not-ready poll; the waker of that poll was invoked and the
\* next poll was ready with Ok(0).
C2_Witness ==
    \E o \in Ops :
        /\ WentPending(o)
        /\ ops[o].lastPending > 0
        /\ ops[o].wokenBy = ops[o].lastPending
        /\ ops[o].fut = "ready"
        /\ ops[o].cbArg = IocpResult(0, 0)
        /\ ops[o].got = Some(ops[o].cbArg)
        /\ get_number_of_bytes_transferred(ops[o].got[1]) = Ok(0)

\* C3: the allocation of every operation is released at most once, by
\* start_async_io only when the operation did not go pending, by the
\* callback only when it did; it is live while the OS owns it, it is never
\* used after its release, and it is released once the operation is over,
\* whether or not the future was dropped meanwhile.
C3_AllocationReleasedExactlyOnce ==
    \A o \in Ops :
        /\ ops[o].syncFrees + ops[o].cbFrees <= 1
        /\ ops[o].syncFrees = 1 => ~WentPending(o)
        /\ ops[o].cbFrees = 1 => WentPending(o)
        /\ ops[o].cbPc \in {"queued", "locked", "stored", "waked"}
               => ops[o].alloc = "live"
        /\ ~ops[o].uaf
        /\ Completed(o) => /\ ops[o].alloc = "freed"
                           /\ ops[o].syncFrees + ops[o].cbFrees = 1
        /\ ops[o].alloc = "freed" <=> ops[o].syncFrees + ops[o].cbFrees = 1

\* C3 witness: the future was dropped while the operation was pending, the
\* callback then released the allocation, and the other operation's
\* allocation was released by start_async_io.
C3_Witness ==
    \E o, q \in Ops :
        /\ ops[o].fut = "dropped" /\ ops[o].droppedAt = "queued"
        /\ ops[o].cbPc = "done" /\ ops[o].cbFrees = 1
        /\ ops[o].alloc = "freed" /\ ops[o].arc = 0
        /\ ops[q].pc = "returned" /\ ops[q].syncFrees = 1

\* The owner of socket h returned an error from its constructor.
ConstructorFailed(h) ==
    IF h = "L" THEN listener.pc = "failed"
    ELSE \/ handles[h].newPc = "err"
         \/ h \in {"A1", "A2"} /\ (acc.h = h => acc.failed = "suppress")

\* C4: a Tpio is registered for a socket, and start_async_io is issued
\* through it, only after the suppressor returned Ok on that socket; once the
\* suppressor has failed on a socket its constructor has returned an error,
\* the socket is closed, and it has no registration, no stream and no
\* operation.
C4_SuppressedBeforeUse ==
    \A h \in Handles :
        /\ (handles[h].tpio > 0 \/ handles[h].started > 0
                \/ handles[h].newPc \in {"tpio", "ok"} \/ handles[h].wrapped)
               => handles[h].suppressed > 0 /\ ~handles[h].suppressFailed
        /\ (h = "L" /\ listener.pc \in {"getfn", "tpio", "bound"})
               => handles[h].suppressed > 0
        /\ handles[h].suppressFailed
               => /\ handles[h].tpio = 0 /\ handles[h].started = 0
                  /\ ~handles[h].wrapped /\ ~handles[h].open
                  /\ ConstructorFailed(h)

\* C4 witness: an accept was issued on the bound listener, the connected
\* stream and an accepted stream each started an operation, and the
\* suppressor failed on the socket of the other accept.
C4_Witness ==
    /\ handles["L"].started > 0 /\ handles["L"].tpio = 1
    /\ handles["C"].started > 0 /\ handles["C"].suppressed = 1
    /\ handles["A1"].suppressFailed
    /\ handles["A2"].started > 0 /\ handles["A2"].suppressed = 2

\* C5: write_all returns success only when the counts it consumed add up to
\* exactly the length of the buffer, and its offset never exceeds the length.
C5_WriteAllSuccessMeansAllWritten ==
    /\ wa.ndx <= wa.len
    /\ wa.ndx = wa.sum
    /\ (wa.pc = "done" /\ wa.ret[1].tag = "Ok") => wa.sum = wa.len

\* C5 witness: a buffer of 3 bytes written in more than one send, one of them
\* short, and write_all returned success.
C5_Witness ==
    /\ wa.pc = "done" /\ wa.ret = Some(Ok(0))
    /\ wa.len = 3 /\ wa.sum = 3 /\ wa.writes = 2

\* C6: write_all issues at most len sends: every send that does not end the
\* call advances the offset by at least one, a send of 0 bytes ends the call
\* with the "disconnected" error, which is no OS error, and a failed send
\* ends the call with its own error.
C6_WriteAllTerminates ==
    /\ wa.writes <= wa.len
    /\ wa.pc = "loop" => wa.ndx >= wa.writes
    /\ wa.pc \in {"pending", "resolved"} => wa.ndx >= wa.writes - 1
    /\ (wa.last # None /\ wa.last[1].tag = "Ok" /\ wa.last[1].val = 0)
           => /\ wa.pc = "done"
              /\ wa.ret = Some(OtherError("disconnected"))
              /\ wa.ret[1].kind # "Os"
    /\ (wa.last # None /\ wa.last[1].tag = "Err")
           => wa.pc = "done" /\ wa.ret = wa.last
    /\ (wa.pc = "done" /\ wa.ret[1].tag = "Ok") => wa.ndx = wa.len

\* C6 witness: after one send that made progress, a send that went pending
\* completed with 0 bytes and write_all returned "disconnected".
C6_Witness ==
    /\ wa.pc = "done"
    /\ wa.ret = Some(OtherError("disconnected"))
    /\ wa.writes = 2 /\ wa.ndx = 1 /\ wa.len = 3
    /\ wa.res = IocpResult(0, 0)

\* The accept operation of the current call has completed with r.
AcceptCompletedWith(r) == acc.path # "" /\ acc.res = r

\* C7: an accept whose operation completed with success and a nonzero byte
\* count, on either path, never returns, neither a stream nor an error: it
\* panics; an accept whose operation completed with an OS error returns
\* that error whatever the byte count; and a returned stream comes from a
\* completion with success and 0 bytes.
C7_NoStreamAfterReceivedBytes ==
    /\ (acc.path # "" /\ acc.res.io_result = 0
           /\ acc.res.number_of_bytes_transferred # 0)
          => acc.pc \in {"completed", "panicked"} /\ acc.ret = None
    /\ (acc.path # "" /\ acc.res.io_result # 0 /\ acc.pc # "completed")
          => /\ acc.pc = "returned"
             /\ acc.ret = Some(AcceptErr(AsI32(acc.res.io_result)))
    /\ (acc.ret # None /\ acc.ret[1].tag = "Ok")
          => AcceptCompletedWith(IocpResult(0, 0))

\* C7 witness: the completion callback reported success with a byte and
\* accept panicked.
C7_Witness ==
    /\ acc.pc = "panicked" /\ acc.path = "callback"
    /\ acc.res.io_result = 0 /\ acc.res.number_of_bytes_transferred = 1
    /\ acc.ret = None

\* The steps of accept, in order.
AcceptSteps == <<"socket", "suppress", "issue", "complete", "promote", "wrap">>

IsPrefix(t, u) == Len(t) <= Len(u) /\ t = SubSeq(u, 1, Len(t))

Range(t) == {t[i] : i \in 1..Len(t)}

\* C8: the steps an accept has executed are, at every point, a prefix of
\* socket, suppress, issue, complete, promote, wrap; and accept returns a
\* stream only after all six, each of them successful, the stream being the
\* wrapped socket it created.
C8_AcceptStepsInOrder ==
    /\ IsPrefix(acc.trace, AcceptSteps)
    /\ acc.oks \subseteq Range(acc.trace)
    /\ (acc.ret # None /\ acc.ret[1].tag = "Ok")
          => /\ acc.trace = AcceptSteps
             /\ acc.oks = Range(AcceptSteps)
             /\ acc.ret[1].stream = acc.h
             /\ handles[acc.h].wrapped /\ handles[acc.h].open

\* C8 witness: an accept that went pending returned the stream.
C8_Witness ==
    /\ acc.pc = "returned" /\ acc.ret = Some(AcceptOk(acc.h))
    /\ acc.path = "callback" /\ acc.promotes = 1

\* The number of steps executed when the named step has failed.
FailedAfter(step) ==
    CASE step = "socket" -> 1
      [] step = "suppress" -> 2
      [] step = "addr" -> 2
      [] step = "accept" -> 4
      [] step = "promote" -> 5
      [] step = "wrap" -> 6

\* C9: each call of accept issues at most one accept operation and at most
\* one promotion call; when a step has failed accept has returned an error,
\* the failed step is the last one executed, every step before it
\* succeeded, and no stream holds the socket; accept returns an error only
\* when a step failed.
C9_AcceptFailsFast ==
    /\ acc.issues <= 1
    /\ acc.promotes <= 1
    /\ acc.failed # ""
          => /\ acc.pc = "returned"
             /\ acc.ret # None /\ acc.ret[1].tag = "Err"
             /\ acc.trace = SubSeq(AcceptSteps, 1, FailedAfter(acc.failed))
             /\ acc.failed = "addr" => acc.issues = 0
             /\ acc.failed \in {"socket", "suppress", "addr", "accept"}
                   => acc.promotes = 0
             /\ handles[acc.h].tpio = 0 /\ ~handles[acc.h].wrapped
    /\ (acc.ret # None /\ acc.ret[1].tag = "Err") => acc.failed # ""

\* C9 witness: the accept operation went pending and completed with an OS
\* error on the second call of accept; accept returned that error without a
\* promotion call.
C9_Witness ==
    /\ acc.calls = 2
    /\ acc.failed = "accept" /\ acc.path = "callback"
    /\ acc.ret = Some(AcceptErr(5))
    /\ acc.issues = 1 /\ acc.promotes = 0

\* C10: when the promotion call fails, the error accept returns carries the
\* last-error code of the OS for that call.
C10_PromotionErrorCarriesOsCode ==
    acc.failed = "promote" => acc.ret[1].code = acc.lastErr

\* op has been called for the operation.
OpCalled(o) == ops[o].pc \notin {"idle", "allocated", "armed"}

\* A poll of the operation's future has returned (and none is running).
Polled(o) == ops[o].polls >= 1 /\ ~ops[o].polling

\* What the polls that have returned so far did.
PollOutcomes ==
    \A o \in Ops :
        /\ ops[o].seen = "" <=> (ops[o].polls = 0 \/ (ops[o].polls = 1
                                                        /\ ops[o].polling))
        /\ (Polled(o) /\ ops[o].seen = "full")
              => /\ ops[o].result # None
                 /\ ops[o].got = ops[o].result
                 /\ ops[o].got = ops[o].firstGot
                 /\ ops[o].lastPending < ops[o].polls
                 /\ ops[o].fut \in {"ready", "dropped"}
        /\ (Polled(o) /\ ops[o].seen = "empty")
              => /\ ops[o].lastPending = ops[o].polls
                 /\ ops[o].waker = Some(ops[o].polls)
                 /\ ops[o].firstReadyAt = 0 /\ ops[o].firstGot = None
                 /\ ops[o].fut \in {"waiting", "dropped"}
        /\ ops[o].firstReadyAt > 0 => ops[o].seen = "full"

\* A poll that returns leaves the result slot as it found it.
PollKeepsResult ==
    \A o \in Ops :
        (ops[o].polling /\ ~ops'[o].polling)
            => ops'[o].result = ops[o].result

\* C12: a poll returns ready, with the stored result, exactly when it finds
\* the result slot populated under the lock; otherwise it records its own
\* waker in place of the recorded one and returns not-ready; no poll changes
\* the result slot, and after a ready poll every poll is ready with the same
\* result.
C12_PollReadyIffResult ==
    /\ []PollOutcomes
    /\ [][PollKeepsResult]_vars

\* C12 witness: after a not-ready poll and the completion callback, a poll
\* was ready and a later poll was ready again with the same result.
C12_Witness ==
    \E o \in Ops :
        /\ ops[o].lastPending > 0
        /\ ops[o].firstReadyAt > ops[o].lastPending
        /\ ops[o].polls > ops[o].firstReadyAt
        /\ Polled(o)
        /\ ops[o].got = ops[o].firstGot /\ ops[o].got = Some(ops[o].cbArg)

\* C13: when op reports a count N, start_async_io has retracted the armed
\* expectation, released the allocation and recorded success with N by the
\* time it returns the future; every poll of that future is ready with
\* Ok(N), and no waker is recorded or invoked and no callback runs for the
\* operation.
C13_SynchronousCount ==
    \A o \in Ops :
        (OpCalled(o) /\ ops[o].out.ret # None)
        => /\ ops[o].waker = None /\ ~ops[o].woken /\ ops[o].wokenBy = 0
           /\ ops[o].wakeHeld = "" /\ ops[o].lastPending = 0
           /\ ops[o].cbPc = "none"
           /\ ops[o].fut # "none"
                 => /\ ops[o].pc = "returned"
                    /\ ops[o].result = Some(IocpResult(0, ops[o].out.ret[1]))
                    /\ ops[o].retracts = 1
                    /\ ops[o].syncFrees = 1 /\ ops[o].alloc = "freed"
           /\ Polled(o)
                 => /\ ops[o].seen = "full" /\ ops[o].firstReadyAt = 1
                    /\ get_number_of_bytes_transferred(ops[o].got[1])
                           = Ok(ops[o].out.ret[1])
                    /\ ops[o].firstGot = ops[o].got

\* C13 witness: op reported one byte and the first poll was ready with Ok(1).
C13_Witness ==
    \E o \in Ops :
        /\ ops[o].out = [ret |-> Some(1), err |-> 0]
        /\ ops[o].polls = 1 /\ Polled(o)
        /\ ops[o].got = Some(IocpResult(0, 1))
        /\ armed = 0

\* C14: when op reports no count and the last error E is not the pending
\* sentinel, every poll of the returned future is ready with an error that
\* carries E, the case E = 0 included.
C14_SynchronousFailure ==
    \A o \in Ops :
        (OpCalled(o) /\ ops[o].out.ret = None
            /\ ops[o].out.err # ERROR_IO_PENDING /\ Polled(o))
        => /\ ops[o].seen = "full"
           /\ get_number_of_bytes_transferred(ops[o].got[1])
                  = OsError(ops[o].out.err)

\* C20: the lock of the result/waker pair is not held when the recorded
\* waker is invoked.
C20_LockFreeDuringWake ==
    \A o \in Ops : ops[o].wakeHeld \in {"", "free"}

\* C17: no socket ever has more than one registration: the bound listener
\* has exactly one, whatever number of accepts ran on it, the connected
\* stream has exactly one, and the stream an accept returns has exactly one.
C17_OneRegistrationPerHandle ==
    /\ \A h \in Handles : handles[h].tpio <= 1
    /\ \A h \in Handles : handles[h].wrapped => handles[h].tpio = 1
    /\ listener.pc = "bound" => handles["L"].tpio = 1
    /\ listener.pc # "bound" => handles["L"].tpio = 0
    /\ conn.pc = "ready" => handles["C"].tpio = 1
    /\ (acc.ret # None /\ acc.ret[1].tag = "Ok")
          => handles[acc.ret[1].stream].tpio = 1

\* C17 witness: the listener is bound, connect returned a stream, and the
\* second accept returned a stream after the first one did; each of the
\* four sockets has its one registration.
C17_Witness ==
    /\ acc.calls = 2 /\ acc.ret = Some(AcceptOk("A2"))
    /\ conn.pc = "ready"
    /\ \A h \in Handles : handles[h].tpio = 1

\* C15: every call of poll_read and of poll_write issues exactly one WSARecv
\* or WSASend, whether it completes at once, goes pending or fails; the call
\* returns Ok(n) exactly when the result code of the path that completed the
\* operation is 0, n being the count that path reported, and otherwise an
\* error carrying that result code.
C15_OneOperationPerCall ==
    \A c \in Calls :
        LET k == sio.calls[c] IN
        /\ k.issued <= 1
        /\ k.pc # "idle" => k.issued = 1
        /\ k.ret # None <=> k.pc = "returned"
        /\ k.pc = "returned"
              => /\ k.path \in {"sync", "callback"}
                 /\ k.ret[1].tag = "Ok" <=> k.os.code = 0
                 /\ k.os.code = 0 => k.ret[1] = Ok(k.os.n)
                 /\ k.os.code # 0 => k.ret[1] = OsError(k.os.code)

\* C15 witness: a read that went pending returned the count its completion
\* reported, and a write that failed at once returned its error.
C15_Witness ==
    \E c, d \in Calls :
        /\ sio.calls[c].kind = "read" /\ sio.calls[c].path = "callback"
        /\ sio.calls[c].ret = Some(Ok(1)) /\ sio.calls[c].issued = 1
        /\ sio.calls[d].kind = "write" /\ sio.calls[d].path = "sync"
        /\ sio.calls[d].ret = Some(OsError(5)) /\ sio.calls[d].issued = 1

\* C16: the Tpio of a stream is not released while an operation started
\* through it is pending in the OS with its completion callback still to
\* run.
C16_TpioOutlivesPendingOperations ==
    sio.tpio = "released" => \A c \in Calls : ~sio.calls[c].osOwned

\* A callback that panicked has not returned to the pool: the panic is held
\* by its catch_unwind, or the callback has terminated the process.
FaultsAreCaught ==
    /\ \A o \in Ops :
          /\ ops[o].cbFault # "" => ops[o].cbPc \in {"caught", "aborted"}
          /\ ops[o].cbPc \in {"caught", "aborted"} => ops[o].cbFault # ""
          /\ ops[o].cbPc = "aborted" => proc = "aborted"
    /\ \A w \in Works :
          /\ work[w].fault # "" => work[w].cb \in {"unwinding", "aborted"}
          /\ work[w].cb \in {"unwinding", "aborted"} => work[w].fault # ""
          /\ work[w].cb = "aborted" => proc = "aborted"

\* Some callback has panicked.
CallbackFaulted ==
    \/ \E o \in Ops : ops[o].cbFault # ""
    \/ \E w \in Works : work[w].fault # ""

\* Nothing of the program runs once the process is terminated.
NoStepAfterAbort == proc = "running"

\* C11: a panic inside the completion callback (a poisoned result lock, a
\* panicking waker) or inside the work callback never leaves the callback:
\* it is caught at the callback's boundary, the process is then terminated,
\* and nothing of the program runs after that.
C11_CallbackFaultAborts ==
    /\ []FaultsAreCaught
    /\ [][NoStepAfterAbort]_vars
    /\ CallbackFaulted ~> (proc = "aborted")

\* C11 witness: the poll of a pending operation's future panicked inside a
\* work callback and poisoned the lock; the completion callback then
\* panicked on the poisoned lock and terminated the process before the work
\* callback did.
C11_Witness ==
    \E o \in PoolOps, w \in Works :
        /\ work[w].fault = "clone" /\ work[w].cb = "unwinding"
        /\ ops[o].cbFault = "lock" /\ ops[o].cbPc = "aborted"
        /\ proc = "aborted"

\* Each work callback has polled its future once when it is past the poll,
\* and no future is polled without a submitted work item.
PolledOncePerSpawn ==
    \A w \in Works :
        /\ work[w].polls <= 1
        /\ work[w].cb \in {"none", "queued", "entered"} => work[w].polls = 0
        /\ work[w].cb \in {"polled", "unwinding", "processed", "returned",
                           "aborted"} => work[w].polls = 1
        /\ work[w].cb # "none" => work[w].sp \in {"submitted", "returned"}
        /\ work[w].sp \in {"submitted", "returned"} => work[w].cb # "none"

C19_SpawnReturnsNormally ==
    \A w \in Works :
        work[w].outcome = "ready"
            => /\ work[w].fault = ""
               /\ work[w].cb \notin {"unwinding", "aborted"}

\* The step by which start_async_io returns on the pending branch changes
\* nothing of the operation but the caller's position and future.
PendingBranchFrame ==
    \A o \in Ops :
        (ops[o].pc = "called" /\ IsPending(ops[o].rc)
            /\ ops'[o].pc # "called")
        => /\ ops'[o].pc = "returned"
           /\ ops'[o].result = ops[o].result
           /\ ops'[o].alloc = ops[o].alloc
           /\ ops'[o].arc = ops[o].arc
           /\ ops'[o].lock = ops[o].lock
           /\ ops'[o].waker = ops[o].waker
           /\ armed' = armed

\* What has been done to an operation that went pending was done by its
\* completion callback.
PendingLeftToCallback ==
    \A o \in Ops :
        (OpCalled(o) /\ IsPending(ops[o].rc))
        => /\ ops[o].syncWrites = 0 /\ ops[o].retracts = 0
           /\ ops[o].syncFrees = 0
           /\ ops[o].result # None
                 => /\ ops[o].cbWrites = 1
                    /\ ops[o].result = Some(ops[o].cbArg)
           /\ ops[o].alloc = "freed" => ops[o].cbFrees = 1
           /\ ops[o].alloc = "live" => ops[o].cbFrees = 0
           /\ ~ops[o].uaf

\* C21: when op reports no count and the last error is the pending
\* sentinel, the rest of start_async_io does not write the result slot,
\* does not retract the expectation and does not touch or release the
\* allocation, also when the callback has already run and released it; the
\* result is written and the allocation released by the callback alone.
C21_PendingBranchUntouched ==
    /\ []PendingLeftToCallback
    /\ [][PendingBranchFrame]_vars

\* C21 witness: start_async_io has returned on the pending branch, the
\* callback has finished and released the allocation, and the future has
\* not been polled yet.
C21_Witness ==
    \E o \in Ops :
        /\ ops[o].pc = "returned" /\ IsPending(ops[o].rc)
        /\ ops[o].cbPc = "done" /\ ops[o].polls = 0
        /\ ops[o].alloc = "freed" /\ ops[o].cbFrees = 1
        /\ ops[o].syncFrees = 0 /\ ops[o].retracts = 0
        /\ ops[o].result = Some(ops[o].cbArg)

\* The operations pending in the OS with their callback still to run.
QueuedOps == {o \in Ops : ops[o].cbPc = "queued"}

\* C25: every call of start_async_io arms one expectation before it calls
\* op and retracts it, once, exactly when the operation did not go pending;
\* whenever no call is in progress the expectations armed and not retracted
\* are as many as the operations pending with their callback still to run.
C25_ArmedMatchesPending ==
    /\ \A o \in Ops :
          /\ ops[o].arms <= 1 /\ ops[o].retracts <= 1
          /\ ops[o].pc \in {"idle", "allocated"} <=> ops[o].arms = 0
          /\ OpCalled(o) => ops[o].arms = 1
          /\ ops[o].retracts = 1 => ~IsPending(ops[o].rc)
          /\ ops[o].pc = "returned"
                => (ops[o].retracts = 1 <=> ~IsPending(ops[o].rc))
    /\ (\A o \in Ops : ops[o].pc \in {"idle", "returned"})
          => armed = Cardinality(QueuedOps)
    /\ armed >= 0

\* C25 witness: no call is in progress, one operation is pending with its
\* callback still to run and the other one was retracted.
C25_Witness ==
    \E o, q \in Ops :
        /\ ops[o].pc = "returned" /\ ops[o].cbPc = "queued"
        /\ ops[q].pc = "returned" /\ ops[q].retracts = 1
        /\ armed = 1

\* C26: with several operations pending on the registration and their
\* callbacks running in any order, the result in an operation's slot is the
\* one its own callback was given, its future is woken only by its own
\* callback, with the waker recorded for it, and a ready poll returns its
\* own result.
C26_CompletionsNotCrossed ==
    \A o \in Ops :
        /\ ops[o].result # None
              => ops[o].result = IF WentPending(o) THEN Some(ops[o].cbArg)
                                 ELSE Some(ops[o].rc)
        /\ (WentPending(o) /\ ops[o].result # None)
              => ops[o].cbPc \in {"stored", "waked", "done"}
        /\ (ops[o].woken \/ ops[o].wokenBy # 0)
              => /\ ops[o].cbPc \in {"waked", "done"}
                 /\ ops[o].wokenBy \in 1..ops[o].polls
                 /\ ops[o].wokenBy <= ops[o].lastPending
        /\ ops[o].got # None => ops[o].got = ops[o].result

\* C26 witness: two operations are pending; the callback of one has stored
\* its result and woken its future, which then was ready with that result,
\* while the other, given a different result, is still running.
C26_Witness ==
    \E o, q \in Ops :
        /\ ops[o].cbPc = "done" /\ ops[o].wokenBy > 0
        /\ ops[o].got = Some(ops[o].cbArg)
        /\ ops[q].cbPc = "locked" /\ ops[q].lastPending > 0
        /\ ops[q].result = None
        /\ ops[q].cbArg # ops[o].cbArg

\* C22: after a successful bind the accept function the listener holds is
\* the pointer the control query returned for the listening socket's
\* family, never null, and the first lookup of the family, made with the
\* entry still empty, issued the query.
C22_BindHoldsQueriedAcceptEx ==
    listener.pc \in {"tpio", "bound"}
    => /\ listener.fnptr = "AcceptEx"
       /\ cache.log # <<>>
       /\ cache.log[1].before = "null" => cache.log[1].queried

\* C23: an entry of the cache goes only from empty to the resolved pointer
\* and then stays; a lookup that finds the entry resolved returns it
\* without issuing the query; a failed lookup leaves the entry as it was;
\* and every successful lookup returns the resolved pointer.
C23_CacheResolvesOnce ==
    /\ \A f \in {"V4", "V6"} : cache[f] \in {"null", "AcceptEx"}
    /\ \A i \in 1..Len(cache.log) :
          LET l == cache.log[i] IN
          /\ l.after # l.before
                => (l.before = "null" /\ l.after = "AcceptEx")
          /\ l.before # "null"
                => (~l.queried /\ (l.tag = "Ok" => l.ptr = l.before))
          /\ l.tag = "Err" => l.after = l.before
          /\ l.tag = "Ok" => l.ptr = "AcceptEx"

\* The references, the WorkItem and the work object of every spawn agree.
WorkItemAccounting ==
    \A w \in Works :
        LET k == work[w] IN
        /\ k.arc >= 0 /\ k.closed <= 1
        /\ k.sp # "idle" => (k.item = "dropped" <=> k.arc = 0)
        /\ k.cb \in {"queued", "entered", "polled"}
              => (k.item = "live" /\ k.arc >= 1)
        /\ k.closed = 1 => (k.native = "set" /\ k.item = "dropped")
        /\ (k.item = "dropped" /\ k.sp # "failed")
              => (k.closed = 1 /\ k.polls = 1 /\ k.sp = "returned")
        /\ k.sp = "failed"
              => /\ k.err \in OsErrors /\ k.polls = 0 /\ k.cb = "none"
                 /\ k.item = "dropped" /\ k.arc = 0
                 /\ k.closed = 0 /\ k.native = "null"

\* The future is polled inside a living WorkItem.
PolledWhileAlive ==
    \A w \in Works :
        work'[w].polls > work[w].polls
        => (work[w].item = "live" /\ work'[w].item = "live")

\* C24: in every interleaving of spawn's return with the work callback the
\* WorkItem is alive until the callback has polled the future, is destroyed
\* once, when the last of the two references is dropped, and its work
\* object is closed once, after it was created and stored; when the work
\* object cannot be created spawn returns the error, the future is not
\* polled, the WorkItem is released once and nothing is closed.
C24_WorkItemLifetime ==
    /\ []WorkItemAccounting
    /\ [][PolledWhileAlive]_vars

\* C24 witness: spawn returned while the callback was running, so the
\* callback dropped the last reference, destroying the WorkItem and closing
\* its work object; another spawn failed to create its work object.
C24_Witness ==
    \E w, v \in Works :
        /\ work[w].sp = "returned" /\ work[w].polls = 1
        /\ work[w].item = "dropped" /\ work[w].closed = 1
        /\ work[v].sp = "failed" /\ work[v].item = "dropped"
        /\ work[v].closed = 0

\* The step that releases the registration finds the handle closed.
ReleasedAfterClosed ==
    (sio.tpio = "live" /\ sio'.tpio = "released")
    => (sio.sock = "closed" /\ sio'.sock = "closed")

\* C27: when an AsyncTcpStream or an AsyncTcpListener is destroyed its
\* handle is closed before its registration is released, in every
\* execution: the registration is never released with the handle open.
C27_HandleClosedBeforeRelease ==
    /\ [](sio.tpio = "released" => sio.sock = "closed")
    /\ [](sio.sock = "open" => sio.dropped = 0)
    /\ [][ReleasedAfterClosed]_vars

\* C27 witness: a stream that completed a call has been destroyed, its
\* socket closed and its registration released.
C27_Witness ==
    /\ sio.owner = "stream" /\ sio.dropped = 2
    /\ sio.sock = "closed" /\ sio.tpio = "released"
    /\ \E c \in Calls : sio.calls[c].pc = "returned"

====
